---- MODULE Spec2Model ----
(***************************************************************************)
(* Model of src/harness.py: the Harness.evaluate orchestration of one data *)
(* point (library injection, revision pin, service loop, restore/cleanup)  *)
(* and the command-line driver that runs it for one id or for all ids.     *)
(***************************************************************************)
EXTENDS Integers, Sequences, FiniteSets, TLC

\* ------------------------------------------------------------------ bounds
\* Largest number of data points found under harness/ (and largest id).
MaxIds == 2
\* Largest number of services declared in one docker-compose.yml.
MaxServices == 2
\* Largest number of {source: destination} mappings of one registry entry.
MaxMaps == 2

\* Number of times in succession the restore/cleanup path is applied when it
\* is exercised on its own.
MaxCleanups == 2

\* ------------------------------------------------------------- value sets
\* How much of docs/, rtl/, verification/ a pin has moved to its revision:
\* each of the three `git checkout` commands may fail on its own.
PinExtents == {"none", "some", "all"}
\* Destination paths a registry entry may name.
Paths == {"lib_a", "lib_b"}
\* Revision identifiers; NoHash is os.getenv("HASH") == None.
Revisions == {"r1", "r2"}
NoHash == "None"
Committed == "HEAD"
\* Return codes of subprocess.run(cmd, shell=True): 0, a nonzero exit, and the
\* negative code Python reports when the child is ended by a signal.
ExitCodes == {-1, 0, 1}
\* Outcome of the image update command: it brought the image up to date, or
\* it did not (it returned nonzero, or raised).
UpdateOutcomes == {"updated", "not_updated"}

\* An id as Python sees it: the int of `--id`, or the str of os.listdir.
IntId(n) == [kind |-> "int", n |-> n]
StrId(n) == [kind |-> "str", n |-> n]
Keys == {IntId(n) : n \in 1..MaxIds} \cup {StrId(n) : n \in 1..MaxIds}

\* Sequences over S of length at most n.
SeqsUpTo(S, n) == UNION {[1..m -> S] : m \in 0..n}

\* The service names of a docker-compose.yml in declaration order (the keys
\* of a dict: no name twice). Names are opaque, so one list per length would
\* do; both the ascending and the descending one are kept, so that the
\* declaration order is not always the sorted order.
ServiceNames == 1..MaxServices
ServiceLists == {[j \in 1..m |-> j] : m \in 0..MaxServices}
                \cup {[j \in 1..m |-> m + 1 - j] : m \in 0..MaxServices}
MappingLists == SeqsUpTo(Paths, MaxMaps)

\* docker-compose.yml as parsed: with or without a 'services' key.
Configs == {[hasServices |-> FALSE, services |-> <<>>]}
           \cup {[hasServices |-> TRUE, services |-> s] : s \in ServiceLists}

\* library/export.yml as parsed: absent or empty (<<>>), or one issue keyed
\* by an id with its list of destinations.
Registries == {<<>>} \cup {<<[key |-> k, context |-> m]>> : k \in Keys, m \in MappingLists}

RECURSIVE SumSeq(_)
SumSeq(s) == IF s = <<>> THEN 0 ELSE Head(s) + SumSeq(Tail(s))

Range(s) == {s[i] : i \in DOMAIN s}

VARIABLES
    mode,        \* "id" (--id N) or "all" (--all)
    checkout,    \* chkt: False when --no-checkout was given
    ids,         \* the ids main iterates over
    idx,         \* position of main's loop in ids
    mainError,   \* main's `error` accumulator (--all)
    mainPc,      \* position of the __main__ block
    exitStatus,  \* process exit status once mainPc = "exited"
    evaluated,   \* ids evaluate has been invoked with, in order
    envHash,     \* HASH in the process environment
    envFile,     \* HASH in the .env file of the data point being evaluated
    hashSetBy,   \* which call of evaluate put HASH in the environment (0: none)
    pc,          \* position inside Harness.evaluate
    id,          \* evaluate's id argument
    docker_config,
    lib_maps,
    hash,
    error,
    services,
    k,           \* number of services the loop has finished
    files,       \* destination paths that exist in the tree
    tree,        \* revision the tracked directories are at, and how far
    started,     \* services whose run was invoked, in order
    codes,       \* return codes of the runs that returned
    updates,     \* outcomes of the image update steps
    fault,       \* fault evaluate raised, "none" otherwise
    retval,      \* value evaluate returned
    calls        \* tree operations evaluate performed, in order

vars == <<mode, checkout, ids, idx, mainError, mainPc, exitStatus, evaluated,
          envHash, envFile, hashSetBy, pc, id, docker_config, lib_maps, hash, error, services, k,
          files, tree, started, codes, updates, fault, retval, calls>>

mainVars == <<mode, checkout, ids, idx, mainError, mainPc, exitStatus, evaluated>>

\* ------------------------------------------------------- helper functions

\* os.remove(file) raises FileNotFoundError when the path does not exist.
os_remove_raises(file, fs) == file \notin fs

\* A cleanup that deletes the first listed path that exists and stops there.
RECURSIVE safe_library_first_existing(_, _)
safe_library_first_existing(external, fs) ==
    IF external = <<>> THEN [files |-> fs, raised |-> FALSE]
    ELSE IF Head(external) \in fs
         THEN [files |-> fs \ {Head(external)}, raised |-> FALSE]
         ELSE safe_library_first_existing(Tail(external), fs)

\* safe_library(external): os.remove of each path in order, no handler; the
\* first missing path raises and the rest is left in place.
RECURSIVE safe_library(_, _)
safe_library(external, fs) ==
    IF external = <<>> THEN [files |-> fs, raised |-> FALSE]
    ELSE IF os_remove_raises(Head(external), fs) THEN [files |-> fs, raised |-> TRUE]
    ELSE safe_library(Tail(external), fs \ {Head(external)})

\* The tree with every tracked directory at the committed state.
CleanTree == [rev |-> Committed, pinned |-> "none"]

\* safe_restore(): unstage and check out docs/, rtl/, verification/.
safe_restore(t) == CleanTree

\* load_dotenv(path): sets HASH from the file only when the process
\* environment does not hold it already (override defaults to False).
load_dotenv(env, fileHash) == IF env = NoHash THEN fileHash ELSE env

\* `if id in issue` over the issues of the registry, then the mappings of
\* issue[id][0]['context'] in order.
RECURSIVE ResolveMappings(_, _)
ResolveMappings(registry, i) ==
    IF registry = <<>> THEN <<>>
    ELSE (IF Head(registry).key = i THEN Head(registry).context ELSE <<>>)
         \o ResolveMappings(Tail(registry), i)

\* A pin guarded by the revision alone, whatever the checkout flag says.
ShouldPinWheneverHashIsSet(h, c) == h # NoHash

\* `if hash != None and checkout:` -- the guard of the pin.
ShouldPin(h, c) == h # NoHash /\ c

\* A restore that is never requested.
ShouldRestoreNever(c) == FALSE

\* `if checkout:` -- the guard of both calls of safe_restore.
ShouldRestore(c) == c

\* An iteration that walks the declared services from the last to the first.
ServiceAtReversed(svcs, n) == svcs[Len(svcs) + 1 - n]

\* `for i in services:` -- the service of the n-th iteration.
ServiceAt(svcs, n) == svcs[n]

\* `error += result.returncode`
Accumulate(err, returncode) == err + returncode

\* A service loop whose body ends the loop: the first service is run and
\* the restore follows at once.
AfterRunFirstServiceOnly(returncode, done, n) ==
    IF done = 0 /\ done < n THEN "update" ELSE "restore"

\* A loop that stops at the first run that returns nonzero.
AfterRunStopAtFailure(returncode, done, n) ==
    IF returncode = 0 /\ done < n THEN "update" ELSE "restore"

\* Where the loop goes once a run returned, `done` of `n` services being
\* finished: the return code is not looked at.
AfterRun(returncode, done, n) == IF done < n THEN "update" ELSE "restore"

\* An image update without its own handler: a failed update enters the
\* except of the loop.
AfterUpdateFailureEscapes(o) == IF o = "updated" THEN "run" ELSE "except"

\* Lines 144-155: the inner try and its bare except; whatever the outcome of
\* the update, execution falls through to the run of the same service.
AfterUpdate(o) == "run"

\* `return (error != 0)`
ReturnValue(err) == err # 0

\* ------------------------------------------------------------------- Init

\* The state once the arguments are parsed and Harness() is built: the mode
\* and the checkout flag are the command line's; with --id the list holds
\* the one int given, with --all the numeric directory names of harness/
\* (strings; ids are opaque, so the listing 1..m stands for any m names).
\* The tree is clean and no destination path exists yet.
Init ==
    /\ mode \in {"id", "all"}
    /\ checkout \in BOOLEAN
    /\ ids \in IF mode = "id"
               THEN {<<IntId(n)>> : n \in 1..MaxIds}
               ELSE {[j \in 1..m |-> StrId(j)] : m \in 0..MaxIds}
    /\ idx = 1
    /\ mainError = 0
    /\ mainPc = "start"
    /\ exitStatus = 0
    /\ evaluated = <<>>
    /\ envHash \in {NoHash, "r1"}
    /\ envFile = NoHash
    /\ hashSetBy = 0
    /\ pc = "idle"
    /\ id = IntId(1)
    /\ docker_config = [hasServices |-> FALSE, services |-> <<>>]
    /\ lib_maps = <<>>
    /\ hash = NoHash
    /\ error = 0
    /\ services = <<>>
    /\ k = 0
    /\ files = {}
    /\ tree = CleanTree
    /\ started = <<>>
    /\ codes = <<>>
    /\ updates = <<>>
    /\ fault = "none"
    /\ retval = FALSE
    /\ calls = <<>>

\* ------------------------------------------------------ Harness.evaluate

\* The call test.evaluate(i, chkt): fresh locals; the tree and the process
\* environment are what the previous call left.
EnterEvaluate(i) ==
    /\ pc' = "load"
    /\ id' = i
    /\ evaluated' = Append(evaluated, i)
    /\ docker_config' = [hasServices |-> FALSE, services |-> <<>>]
    /\ lib_maps' = <<>>
    /\ hash' = NoHash
    /\ error' = 0
    /\ services' = <<>>
    /\ k' = 0
    /\ started' = <<>>
    /\ codes' = <<>>
    /\ updates' = <<>>
    /\ fault' = "none"
    /\ retval' = FALSE
    /\ calls' = <<>>
    /\ envFile' = NoHash
    /\ UNCHANGED <<files, tree, envHash, hashSetBy>>

\* evaluate raises `f` from position pc.
Raise(f) == pc' = "raised" /\ fault' = f

\* Lines 62-70: load_dotenv of the data point's .env, then open and parse
\* its docker-compose.yml (open raises when the file is absent).
LoadConfig ==
    /\ pc = "load"
    /\ \E fileHash \in {NoHash} \cup Revisions :
          /\ envFile' = fileHash
          /\ envHash' = load_dotenv(envHash, fileHash)
          /\ hashSetBy' = IF envHash' # envHash THEN Len(evaluated) ELSE hashSetBy
    /\ \/ /\ Raise("ConfigFileError")
          /\ UNCHANGED docker_config
       \/ /\ \E c \in Configs : docker_config' = c
          /\ pc' = "library"
          /\ UNCHANGED fault
    /\ UNCHANGED <<mainVars, id, lib_maps, hash, error, services, k, files, tree,
                   started, codes, updates, retval, calls>>

\* Lines 72-97: resolve the mappings of this id in library/export.yml and
\* copy each one; the destination is appended to lib_maps before the copy,
\* and a copy that raises (n copies done) ends evaluate there.
InjectLibrary ==
    /\ pc = "library"
    /\ \E registry \in Registries :
          LET maps == ResolveMappings(registry, id) IN
          \E n \in 0..Len(maps) :
             /\ files' = files \cup {maps[j] : j \in 1..n}
             /\ IF n = Len(maps)
                THEN /\ lib_maps' = maps
                     /\ pc' = "tools"
                     /\ UNCHANGED fault
                ELSE /\ lib_maps' = SubSeq(maps, 1, n + 1)
                     /\ Raise("CopyFault")
    /\ UNCHANGED <<mainVars, envHash, envFile, hashSetBy, id, docker_config, hash, error, services, k,
                   tree, started, codes, updates, retval, calls>>

\* Lines 99-110: hash = os.getenv("HASH"); docker and git must be on PATH.
CheckTools ==
    /\ pc = "tools"
    /\ hash' = envHash
    /\ \E docker \in BOOLEAN, git \in BOOLEAN :
          IF docker /\ git
          THEN pc' = "pin" /\ UNCHANGED fault
          ELSE Raise("ConfigError")
    /\ UNCHANGED <<mainVars, envHash, envFile, hashSetBy, id, docker_config, lib_maps, error, services,
                   k, files, tree, started, codes, updates, retval, calls>>

\* Lines 112-123: the three `git checkout {hash} <dir>/` of the pin, each of
\* which may fail without raising (os.system); or the skip; or the
\* configuration error of a missing revision.
PinTree ==
    /\ pc = "pin"
    /\ IF ShouldPin(hash, checkout)
       THEN /\ \E ok \in PinExtents :
                  tree' = IF ok = "none" THEN tree ELSE [rev |-> hash, pinned |-> ok]
            /\ calls' = Append(calls, "pin")
            /\ pc' = "services"
            /\ UNCHANGED fault
       ELSE IF ~checkout
       THEN /\ pc' = "services"
            /\ UNCHANGED <<tree, calls, fault>>
       ELSE /\ Raise("ConfigError")
            /\ UNCHANGED <<tree, calls>>
    /\ UNCHANGED <<mainVars, envHash, envFile, hashSetBy, id, docker_config, lib_maps, hash, error,
                   services, k, files, started, codes, updates, retval>>

\* Lines 125-132: error = 0; services = docker_config['services'].keys(),
\* which raises when the document has no such key. Outside the try.
ReadServices ==
    /\ pc = "services"
    /\ error' = 0
    /\ IF docker_config.hasServices
       THEN /\ services' = docker_config.services
            /\ pc' = AfterRun(0, 0, Len(docker_config.services))
            /\ UNCHANGED fault
       ELSE /\ Raise("ServicesFault")
            /\ UNCHANGED services
    /\ UNCHANGED <<mainVars, envHash, envFile, hashSetBy, id, docker_config, lib_maps, hash, k, files,
                   tree, started, codes, updates, retval, calls>>

\* Lines 143-155: docker pull / docker compose build of the service, inside
\* its own try with a bare except: whatever happens, the run comes next.
UpdateImage ==
    /\ pc = "update"
    /\ \E o \in UpdateOutcomes :
          /\ updates' = Append(updates, o)
          /\ pc' = AfterUpdate(o)
    /\ UNCHANGED <<mainVars, envHash, envFile, hashSetBy, id, docker_config, lib_maps, hash, error,
                   services, k, files, tree, started, codes, fault, retval, calls>>

\* Lines 161-166: run the service; it returns a code, which is added to
\* error, or the invocation raises, which enters the except of line 168.
\* The container has the tree mounted read-write and may delete a file.
RunService ==
    /\ pc = "run"
    /\ started' = Append(started, ServiceAt(services, k + 1))
    /\ \E gone \in SUBSET files : Cardinality(gone) <= 1 /\ files' = files \ gone
    /\ \/ \E c \in ExitCodes :
             /\ codes' = Append(codes, c)
             /\ error' = Accumulate(error, c)
             /\ k' = k + 1
             /\ pc' = AfterRun(c, k + 1, Len(services))
       \/ /\ pc' = "except"
          /\ UNCHANGED <<codes, error, k>>
    /\ UNCHANGED <<mainVars, envHash, envFile, hashSetBy, id, docker_config, lib_maps, hash, services,
                   tree, updates, fault, retval, calls>>

\* Lines 168-174: the except of the run loop: safe_restore when checkout,
\* safe_library, then the generic fault -- unless safe_library raised first.
ExceptHandler ==
    /\ pc = "except"
    /\ LET r == safe_library(lib_maps, files) IN
          /\ files' = r.files
          /\ Raise(IF r.raised THEN "CleanupFault" ELSE "HarnessFault")
    /\ IF ShouldRestore(checkout)
       THEN /\ tree' = safe_restore(tree)
            /\ calls' = calls \o <<"safe_restore", "safe_library">>
       ELSE /\ calls' = Append(calls, "safe_library")
            /\ UNCHANGED tree
    /\ UNCHANGED <<mainVars, envHash, envFile, hashSetBy, id, docker_config, lib_maps, hash, error,
                   services, k, started, codes, updates, retval>>

\* Lines 180-185: the same two calls once the loop has ended normally.
RestoreContext ==
    /\ pc = "restore"
    /\ LET r == safe_library(lib_maps, files) IN
          /\ files' = r.files
          /\ IF r.raised
             THEN Raise("CleanupFault")
             ELSE pc' = "report" /\ UNCHANGED fault
    /\ IF ShouldRestore(checkout)
       THEN /\ tree' = safe_restore(tree)
            /\ calls' = calls \o <<"safe_restore", "safe_library">>
       ELSE /\ calls' = Append(calls, "safe_library")
            /\ UNCHANGED tree
    /\ UNCHANGED <<mainVars, envHash, envFile, hashSetBy, id, docker_config, lib_maps, hash, error,
                   services, k, started, codes, updates, retval>>

\* Lines 191-196: success is printed and (error != 0) returned when error
\* is 0; otherwise ValueError is raised.
FinalReport ==
    /\ pc = "report"
    /\ IF error = 0
       THEN /\ retval' = ReturnValue(error)
            /\ pc' = "returned"
            /\ UNCHANGED fault
       ELSE /\ Raise("VerificationFault")
            /\ UNCHANGED retval
    /\ UNCHANGED <<mainVars, envHash, envFile, hashSetBy, id, docker_config, lib_maps, hash, error,
                   services, k, files, tree, started, codes, updates, calls>>

evalVars == <<envHash, envFile, hashSetBy, id, docker_config, lib_maps, hash, error, services, k,
              files, tree, started, codes, updates, fault, retval, calls>>

\* ----------------------------------------------------------------- __main__

\* Lines 218-220: test.evaluate(args.id, chkt).
MainSingleCall ==
    /\ mode = "id" /\ mainPc = "start" /\ pc = "idle"
    /\ EnterEvaluate(ids[1])
    /\ mainPc' = "single"
    /\ UNCHANGED <<mode, checkout, ids, idx, mainError, exitStatus>>

\* Lines 220-221: a True result is raised as ValueError; otherwise the
\* script ends.
MainSingleResult ==
    /\ mainPc = "single" /\ pc = "returned"
    /\ mainPc' = "exited"
    /\ exitStatus' = IF retval THEN 1 ELSE 0
    /\ UNCHANGED <<mode, checkout, ids, idx, mainError, evaluated, pc, evalVars>>

\* Lines 223-226: the numeric directory names under harness/; error = 0.
MainAllList ==
    /\ mode = "all" /\ mainPc = "start"
    /\ mainPc' = "loop"
    /\ idx' = 1
    /\ mainError' = 0
    /\ UNCHANGED <<mode, checkout, ids, exitStatus, evaluated, pc, evalVars>>

\* Line 228-229: the call test.evaluate(id, chkt) for the next id.
MainAllCall ==
    /\ mainPc = "loop" /\ pc = "idle" /\ idx <= Len(ids)
    /\ EnterEvaluate(ids[idx])
    /\ UNCHANGED <<mode, checkout, ids, idx, mainError, mainPc, exitStatus>>

\* Line 229: error += the value evaluate returned; on to the next id.
MainAllAccumulate ==
    /\ mainPc = "loop" /\ pc = "returned"
    /\ mainError' = mainError + (IF retval THEN 1 ELSE 0)
    /\ idx' = idx + 1
    /\ pc' = "idle"
    /\ UNCHANGED <<mode, checkout, ids, mainPc, exitStatus, evaluated, evalVars>>

\* The loop of line 228 is over and the script ends; error is not read.
MainAllExit ==
    /\ mainPc = "loop" /\ pc = "idle" /\ idx > Len(ids)
    /\ mainPc' = "exited"
    /\ exitStatus' = 0
    /\ UNCHANGED <<mode, checkout, ids, idx, mainError, evaluated, pc, evalVars>>

\* Neither call site has a handler: a fault raised by evaluate ends the
\* process with a traceback and status 1.
MainUncaught ==
    /\ mainPc \in {"single", "loop"} /\ pc = "raised"
    /\ mainPc' = "exited"
    /\ exitStatus' = 1
    /\ UNCHANGED <<mode, checkout, ids, idx, mainError, evaluated, pc, evalVars>>

Next ==
    \/ MainSingleCall
    \/ MainSingleResult
    \/ MainAllList
    \/ MainAllCall
    \/ MainAllAccumulate
    \/ MainAllExit
    \/ MainUncaught
    \/ LoadConfig
    \/ InjectLibrary
    \/ CheckTools
    \/ PinTree
    \/ ReadServices
    \/ UpdateImage
    \/ RunService
    \/ ExceptHandler
    \/ RestoreContext
    \/ FinalReport

Spec == Init /\ [][Next]_vars

TypeOK ==
    /\ mode \in {"id", "all"}
    /\ checkout \in BOOLEAN
    /\ idx \in 1..(MaxIds + 1)
    /\ mainError \in 0..MaxIds
    /\ mainPc \in {"start", "single", "loop", "exited"}
    /\ exitStatus \in {0, 1}
    /\ envHash \in {NoHash} \cup Revisions
    /\ envFile \in {NoHash} \cup Revisions
    /\ hashSetBy \in 0..MaxIds
    /\ pc \in {"idle", "load", "library", "tools", "pin", "services", "update",
               "run", "except", "restore", "report", "returned", "raised"}
    /\ files \subseteq Paths
    /\ tree \in [rev : {Committed} \cup Revisions, pinned : PinExtents]
    /\ k \in 0..MaxServices
    /\ fault \in {"none", "ConfigFileError", "CopyFault", "ConfigError", "ServicesFault",
                  "HarnessFault", "CleanupFault", "VerificationFault"}
    /\ retval \in BOOLEAN

\* ================================================================= claims

\* evaluate has returned or raised.
EvaluateOver == pc \in {"returned", "raised"}

\* The pin of lines 114-116 has been performed in this run of evaluate.
Pinned == "pin" \in Range(calls)

\* The run of some service raised instead of returning a code.
InvocationFault == Len(started) > Len(codes)

\* No destination path of this run's mappings exists in the tree.
NoInjectedFileLeft == Range(lib_maps) \cap files = {}

SomeNonzero == \E j \in DOMAIN codes : codes[j] # 0

\* C1: guaranteed restore -- whenever evaluate returns or raises after the
\* tree has been pinned (whatever failed afterwards, the read of the service
\* list included), safe_restore has run, the tracked directories are back at
\* the committed state, and none of the library files this run injected
\* still exists.
C1_GuaranteedRestore ==
    (EvaluateOver /\ Pinned) =>
        /\ "safe_restore" \in Range(calls)
        /\ tree = CleanTree
        /\ NoInjectedFileLeft

\* C2: a configuration error leaves no partial run -- whenever evaluate
\* raises the configuration error of lines 105, 110 or 123, no library file
\* injected for this data point exists and no service has been started.
C2_ConfigErrorLeavesNothing ==
    (pc = "raised" /\ fault = "ConfigError") =>
        /\ NoInjectedFileLeft
        /\ started = <<>>

\* C3: batch resilience -- in --all mode the process ends only after
\* evaluate was invoked for every id of the list, and when the evaluate of
\* a data point raised, the aggregate failure count is at least 1.
C3_BatchResilience ==
    (mode = "all" /\ mainPc = "exited") =>
        /\ evaluated = ids
        /\ pc = "raised" => mainError >= 1

\* C4: aggregation rule -- once evaluate has reached its final report, it
\* reports the data point failed exactly when some service returned a
\* nonzero code, and reports success exactly when every service returned 0.
C4_FailedIffSomeNonzero ==
    /\ pc = "returned" => ~SomeNonzero
    /\ (pc = "raised" /\ fault = "VerificationFault") => SomeNonzero

\* The service loop has been left the normal way, no run having raised.
LoopLeftNormally ==
    \/ pc \in {"restore", "report", "returned"}
    \/ pc = "raised" /\ fault \in {"VerificationFault", "CleanupFault"} /\ ~InvocationFault

\* C5: no early abort on logical failure -- when the service loop is left
\* without an invocation fault, every declared service has been run,
\* whatever codes the earlier ones returned, and error is the sum of the
\* return codes of all declared services.
C5_NoEarlyAbort ==
    LoopLeftNormally =>
        /\ started = services
        /\ Len(codes) = Len(services)
        /\ error = SumSeq(codes)

\* A nonzero first service, a second service run after it, loop over.
C5_Witness ==
    /\ LoopLeftNormally
    /\ Len(codes) = 2
    /\ codes[1] # 0

\* C6: early abort on invocation fault -- when the run of a service raised
\* and evaluate is over, no later service was started, safe_restore (when
\* checkout was requested) and then safe_library have run, and the fault
\* evaluate raises is the generic one of line 174.
C6_EarlyAbortThenGenericFault ==
    (EvaluateOver /\ InvocationFault) =>
        /\ started = SubSeq(services, 1, Len(codes) + 1)
        /\ calls = (IF ShouldPin(hash, checkout) THEN <<"pin">> ELSE <<>>)
                   \o (IF checkout THEN <<"safe_restore">> ELSE <<>>)
                   \o <<"safe_library">>
        /\ pc = "raised" /\ fault = "HarnessFault"

\* C7: service ordering -- the runs started so far are the declared services
\* in declaration order, none left out and none moved.
C7_ServiceOrdering ==
    /\ Len(started) <= Len(services)
    /\ started = SubSeq(services, 1, Len(started))

\* Two services declared in descending name order, the first returned
\* nonzero and the second has been started.
C7_Witness ==
    /\ services = <<2, 1>>
    /\ Len(started) = 2
    /\ codes # <<>> /\ codes[1] # 0

\* C8: cleanup is total -- once safe_library has been called, on the normal
\* and on the fault path, it has not raised and none of the run's
\* destination paths exists, whichever of them were missing beforehand.
C8_CleanupIsTotal ==
    "safe_library" \in Range(calls) =>
        /\ fault # "CleanupFault"
        /\ NoInjectedFileLeft

\* C9: verification failure is a result -- when every declared service ran
\* without an invocation fault, some service returned nonzero and the
\* cleanup went through, evaluate returns normally with the value True.
C9_FailureIsReturned ==
    (EvaluateOver /\ started = services /\ ~InvocationFault /\ SomeNonzero
        /\ fault # "CleanupFault") =>
        /\ pc = "returned"
        /\ retval = TRUE

\* evaluate ended on one of: success, nonzero service exit, invocation fault.
RunExitPath ==
    \/ pc = "returned"
    \/ pc = "raised" /\ fault \in {"VerificationFault", "HarnessFault", "CleanupFault"}

\* C10: checkout-skip mode -- with checkout disabled no pin and no
\* safe_restore is ever called and the tree stays as it was, whether or not
\* HASH is set; and on the success, nonzero-exit and invocation-fault exit
\* paths safe_library has been called.
C10_CheckoutSkip ==
    ~checkout =>
        /\ "pin" \notin Range(calls)
        /\ "safe_restore" \notin Range(calls)
        /\ tree = CleanTree
        /\ RunExitPath => "safe_library" \in Range(calls)

\* Checkout disabled, a revision in the environment, and evaluate ended by
\* the generic fault after an invocation fault.
C10_Witness ==
    /\ ~checkout
    /\ hash # NoHash
    /\ pc = "raised" /\ fault = "HarnessFault"
    /\ InvocationFault

\* Number of times operation `op` occurs in a sequence of calls.
Count(seq, op) == Cardinality({j \in DOMAIN seq : seq[j] = op})

\* C11: restore exactly once -- whenever a run of evaluate with checkout
\* requested that has pinned the tree returns or raises, safe_restore has
\* been called exactly once, whatever the exit path.
C11_RestoreExactlyOnce ==
    (EvaluateOver /\ checkout /\ Pinned) => Count(calls, "safe_restore") = 1

\* The pin was performed and at least one of its checkouts failed: the
\* tracked directories are not all at the target revision.
PinFailed ==
    /\ Pinned
    /\ "safe_restore" \notin Range(calls)
    /\ tree.pinned # "all"

\* C12: a failed pin is never used -- when a checkout of the pin has failed,
\* no service is run against the tree and evaluate does not return normally.
C12_FailedPinNeverUsed ==
    PinFailed =>
        /\ started = <<>>
        /\ pc # "returned"

\* HASH is in the environment because the .env of a data point evaluated
\* earlier in this process put it there (not the shell, not this data point).
HashLeftByEarlierDataPoint ==
    /\ envHash # NoHash
    /\ hashSetBy >= 1
    /\ hashSetBy < Len(evaluated)

\* evaluate has gone past the revision check of lines 112-123.
PastRevisionCheck ==
    \/ pc \in {"services", "update", "run", "except", "restore", "report", "returned"}
    \/ pc = "raised" /\ fault \notin {"ConfigFileError", "CopyFault", "ConfigError"}

\* C13: a missing revision is never a silent skip -- a call of evaluate with
\* checkout requested for a data point whose .env names no revision never
\* gets past the revision check and runs no service, also when an earlier
\* data point of the batch did name a revision.
C13_MissingRevisionIsAnError ==
    (checkout /\ pc # "idle" /\ envFile = NoHash /\ HashLeftByEarlierDataPoint) =>
        /\ ~PastRevisionCheck
        /\ started = <<>>

\* C19: per-data-point revision in a batch -- in an --all run with checkout
\* requested, a data point whose .env names a revision is pinned to that
\* revision, not to the one an earlier data point left in the environment.
C19_PinnedToOwnRevision ==
    (mode = "all" /\ checkout /\ Pinned /\ tree.pinned # "none"
        /\ envFile # NoHash /\ HashLeftByEarlierDataPoint) =>
        tree.rev = envFile

\* main is about to call evaluate for an id that is not the first of the
\* list: the locals are still those of the previous call.
NextDataPointBegins ==
    mainPc = "loop" /\ pc = "idle" /\ idx > 1 /\ idx <= Len(ids)

SomeDataPointFailed == pc = "raised" \/ SomeNonzero

\* C16: process exit status -- on the --id and on the --all path the process
\* ends with a nonzero status exactly when a data point it evaluated failed
\* (a service returned nonzero, or evaluate raised), and with zero otherwise.
C16_ExitStatusReflectsFailure ==
    mainPc = "exited" => (exitStatus # 0 <=> SomeDataPointFailed)

\* safe_restore or safe_library has been called in this run of evaluate.
CleanupStarted == "safe_restore" \in Range(calls) \/ "safe_library" \in Range(calls)

\* C17: cleanup never precedes the workload -- once cleanup or restore has
\* started, either every declared service has been attempted or the run of
\* one has raised; and no update or run of a service is pending after it.
C17_CleanupAfterWorkload ==
    CleanupStarted =>
        /\ started = services \/ InvocationFault
        /\ pc \notin {"update", "run"}

\* Cleanup after the invocation fault of the first of two services.
C17_Witness ==
    /\ CleanupStarted
    /\ InvocationFault
    /\ Len(services) = 2
    /\ Len(started) = 1

\* C18: image refresh is best-effort -- every image update, whatever its
\* outcome, is followed by the run of the same service (never by the except
\* path), the loop goes on to the following services, and error is the sum
\* of the return codes of the runs alone.
C18_ImageRefreshBestEffort ==
    /\ Len(updates) = Len(started) + (IF pc = "run" THEN 1 ELSE 0)
    /\ (pc = "except" \/ fault = "HarnessFault") => InvocationFault
    /\ LoopLeftNormally => Len(updates) = Len(services)
    /\ pc \in {"update", "run", "except", "restore", "report", "returned"}
          => error = SumSeq(codes)

\* The update of the first of two services failed, both services were run
\* and the loop ended normally.
C18_Witness ==
    /\ LoopLeftNormally
    /\ Len(started) = 2
    /\ updates[1] = "not_updated"

\* The same id supplied the other way: the int for the directory name, the
\* directory name for the int.
OtherKind(i) == IF i.kind = "int" THEN StrId(i.n) ELSE IntId(i.n)

\* evaluate has resolved and copied the mappings of its id, at least one.
InjectionDone ==
    /\ pc \in {"tools", "pin", "services", "update", "run"}
    /\ lib_maps # <<>>

\* C20: injection does not depend on how the id is supplied -- whatever
\* registry with an entry for this data point explains the list evaluate has
\* injected, the same registry gives the same list when the id is supplied
\* the other way (int for --id, numeric string for --all).
C20_InjectionSameForIntAndStr ==
    InjectionDone =>
        \A registry \in Registries :
            (/\ registry # <<>>
             /\ registry[1].key.n = id.n
             /\ ResolveMappings(registry, id) = lib_maps)
            => ResolveMappings(registry, OtherKind(id)) = lib_maps

\* ------------------------------------------- the restore/cleanup path alone

\* Every tree state and every list of destinations the path can be given:
\* the tracked directories clean or pinned in part or in full, any subset of
\* the destination paths present, any list of mappings (empty, or with a
\* destination twice).
InitCleanup ==
    /\ mode = "id"
    /\ checkout \in BOOLEAN
    /\ ids = <<IntId(1)>>
    /\ idx = 1
    /\ mainError = 0
    /\ mainPc = "single"
    /\ exitStatus = 0
    /\ evaluated = <<IntId(1)>>
    /\ envHash = NoHash
    /\ envFile = NoHash
    /\ hashSetBy = 0
    /\ pc = "cleanup"
    /\ id = IntId(1)
    /\ docker_config = [hasServices |-> FALSE, services |-> <<>>]
    /\ lib_maps \in MappingLists
    /\ hash = NoHash
    /\ error = 0
    /\ services = <<>>
    /\ k = 0
    /\ files \in SUBSET Paths
    /\ tree \in {CleanTree} \cup [rev : Revisions, pinned : {"some", "all"}]
    /\ started = <<>>
    /\ codes = <<>>
    /\ updates = <<>>
    /\ fault = "none"
    /\ retval = FALSE
    /\ calls = <<>>

\* Lines 180-185 (and 169-173): safe_restore when checkout, then
\* safe_library(lib_maps); a FileNotFoundError of os.remove is noted and the
\* tree is left as the call left it.
CleanupPath ==
    /\ pc = "cleanup"
    /\ Count(calls, "safe_library") < MaxCleanups
    /\ LET r == safe_library(lib_maps, files) IN
          /\ files' = r.files
          /\ fault' = IF r.raised THEN "CleanupFault" ELSE fault
    /\ IF ShouldRestore(checkout)
       THEN /\ tree' = safe_restore(tree)
            /\ calls' = calls \o <<"safe_restore", "safe_library">>
       ELSE /\ calls' = Append(calls, "safe_library")
            /\ UNCHANGED tree
    /\ UNCHANGED <<mainVars, envHash, envFile, hashSetBy, pc, id, docker_config,
                   lib_maps, hash, error, services, k, started, codes, updates,
                   retval>>

NextCleanup == CleanupPath

SpecCleanup == InitCleanup /\ [][NextCleanup]_vars

====
